---- MODULE Spec2Model ----
(***************************************************************************)
(* A model of DataRemovalBot (src/DataRemovalBot/main.py): one run of the  *)
(* program from the command line to its exit, and its pure helpers.        *)
(*                                                                         *)
(* Strings are sequences of Unicode code points (str.lower, utf-8 and      *)
(* base64 act on them); dictionary keys the code never transforms are TLA+ *)
(* strings.  An optional value is << >> (None) or <<v>>.                    *)
(***************************************************************************)
EXTENDS Integers, Sequences, FiniteSets, TLC

VARIABLES
    pc,             \* position of the program
    args,           \* argparse.Namespace: country, type, target_name, clear_config
    cfgFile,        \* config.json on disk
    targetsFile,    \* targets.json on disk
    countriesFile,  \* countries.json on disk
    config,         \* self.config (its smtp is also self.smtp_config_obj)
    targets,        \* self.targets
    user_info,      \* self.user_info
    chrome_service, \* self.chrome_service is set
    driver,         \* a browser session is open
    idx,            \* index of the target being processed (enumerate, from 1)
    out,            \* what the run printed, prompted and sent, in order
    exitCode,       \* << >> while running, <<code>> once the process has ended
    inputs,         \* values the user typed at the prompt of the current field
    hist,           \* what an operation under study was given and returned
    tmplFile        \* the template file on disk

vars == <<pc, args, cfgFile, targetsFile, countriesFile, config, targets,
          user_info, chrome_service, driver, idx, out, exitCode, inputs, hist,
          tmplFile>>

----------------------------------------------------------------------------
(* Bounds of the model *)

\* longest password, in code points
MaxPwLen == 2
\* longest target list in targets.json
MaxTargets == 2
\* most rejected inputs counted at one identifier prompt
MaxTries == 2
\* longest generated template body, in tokens
MaxTokens == 2
\* longest value typed at an identifier prompt, in characters
MaxInputLen == 2

----------------------------------------------------------------------------
(* Strings *)

None == << >>
Some(v) == <<v>>
\* Python truthiness of an optional string: not None and not empty
Truthy(o) == o # None /\ o[1] # << >>

\* str.lower on one code point (ASCII letters; the others are unchanged)
LowerChar(c) == IF c >= 65 /\ c <= 90 THEN c + 32 ELSE c

UpperChar(c) == IF c >= 97 /\ c <= 122 THEN c - 32 ELSE c

Lower(s) == [i \in 1..Len(s) |-> LowerChar(s[i])]

Upper(s) == [i \in 1..Len(s) |-> UpperChar(s[i])]

\* Python's "a in b" on strings
Contains(a, b) ==
    \E k \in 0..(Len(b) - Len(a)) : \A i \in 1..Len(a) : b[k + i] = a[i]

RECURSIVE Concat(_)
\* "".join(parts)
Concat(parts) ==
    IF parts = << >> THEN << >> ELSE Head(parts) \o Concat(Tail(parts))

\* all strings over alphabet A of length at most n
StringsUpTo(A, n) == UNION {[1..k -> A] : k \in 0..n}

----------------------------------------------------------------------------
(* _obfuscate / _deobfuscate: utf-8, then base64 *)

\* str.encode('utf-8') of one code point below U+0800
Utf8Char(c) ==
    IF c < 128 THEN <<c>> ELSE <<192 + (c \div 64), 128 + (c % 64)>>

Utf8Encode(s) == Concat([i \in 1..Len(s) |-> Utf8Char(s[i])])

RECURSIVE Utf8Decode(_)
\* bytes.decode('utf-8'); <<-1>> stands for UnicodeDecodeError
Utf8Decode(b) ==
    IF b = << >> THEN << >>
    ELSE IF b[1] < 128 THEN
        LET r == Utf8Decode(Tail(b))
        IN  IF r = <<-1>> THEN r ELSE <<b[1]>> \o r
    ELSE IF b[1] >= 192 /\ b[1] < 224 /\ Len(b) >= 2 /\ b[2] >= 128 /\ b[2] < 192
    THEN
        LET r == Utf8Decode(SubSeq(b, 3, Len(b)))
        IN  IF r = <<-1>> THEN r
            ELSE <<(b[1] - 192) * 64 + (b[2] - 128)>> \o r
    ELSE <<-1>>

\* the base64 alphabet: the character of a 6-bit value
B64Char(v) ==
    IF v < 26 THEN 65 + v
    ELSE IF v < 52 THEN 97 + (v - 26)
    ELSE IF v < 62 THEN 48 + (v - 52)
    ELSE IF v = 62 THEN 43 ELSE 47

\* the 6-bit value of a base64 character
B64Val(c) ==
    IF c >= 65 /\ c <= 90 THEN c - 65
    ELSE IF c >= 97 /\ c <= 122 THEN c - 97 + 26
    ELSE IF c >= 48 /\ c <= 57 THEN c - 48 + 52
    ELSE IF c = 43 THEN 62 ELSE 63

B64Pad == 61

RECURSIVE B64EncodeMut(_)
\* a base64 that drops the padding of the last group
B64EncodeMut(b) ==
    IF b = << >> THEN << >>
    ELSE IF Len(b) = 1 THEN
        <<B64Char(b[1] \div 4), B64Char((b[1] % 4) * 16)>>
    ELSE IF Len(b) = 2 THEN
        <<B64Char(b[1] \div 4), B64Char((b[1] % 4) * 16 + (b[2] \div 16)),
          B64Char((b[2] % 16) * 4)>>
    ELSE
        <<B64Char(b[1] \div 4), B64Char((b[1] % 4) * 16 + (b[2] \div 16)),
          B64Char((b[2] % 16) * 4 + (b[3] \div 64)), B64Char(b[3] % 64)>>
        \o B64EncodeMut(SubSeq(b, 4, Len(b)))

RECURSIVE B64Encode(_)
\* base64.b64encode: 3 bytes to 4 characters, the last group padded with '='
B64Encode(b) ==
    IF b = << >> THEN << >>
    ELSE IF Len(b) = 1 THEN
        <<B64Char(b[1] \div 4), B64Char((b[1] % 4) * 16), B64Pad, B64Pad>>
    ELSE IF Len(b) = 2 THEN
        <<B64Char(b[1] \div 4), B64Char((b[1] % 4) * 16 + (b[2] \div 16)),
          B64Char((b[2] % 16) * 4), B64Pad>>
    ELSE
        <<B64Char(b[1] \div 4), B64Char((b[1] % 4) * 16 + (b[2] \div 16)),
          B64Char((b[2] % 16) * 4 + (b[3] \div 64)), B64Char(b[3] % 64)>>
        \o B64Encode(SubSeq(b, 4, Len(b)))

RECURSIVE B64Decode(_)
\* base64.b64decode; <<-1>> stands for binascii.Error (a length that is no
\* multiple of 4)
B64Decode(s) ==
    IF s = << >> THEN << >>
    ELSE IF Len(s) < 4 THEN <<-1>>
    ELSE
        LET a == B64Val(s[1])
            b == B64Val(s[2])
            c == B64Val(s[3])
            d == B64Val(s[4])
            r == B64Decode(SubSeq(s, 5, Len(s)))
            g == IF s[3] = B64Pad THEN <<a * 4 + (b \div 16)>>
                 ELSE IF s[4] = B64Pad
                 THEN <<a * 4 + (b \div 16), (b % 16) * 16 + (c \div 4)>>
                 ELSE <<a * 4 + (b \div 16), (b % 16) * 16 + (c \div 4),
                        (c % 4) * 64 + d>>
        IN  IF r = <<-1>> THEN r ELSE g \o r

_obfuscate(data) == B64Encode(Utf8Encode(data))

\* <<-1>> when b64decode or decode raises
_deobfuscate(data) ==
    LET b == B64Decode(data)
    IN  IF b = <<-1>> THEN b ELSE Utf8Decode(b)

----------------------------------------------------------------------------
(* Named strings *)

S_empty == << >>
\* "SE", "se", "US"
S_SE == <<83, 69>>
S_se == <<115, 101>>
S_US == <<85, 83>>
\* "Ada"
S_Ada == <<65, 100, 97>>
\* "a@b"
S_mail == <<97, 64, 98>>
\* "None", what str.format writes for None
S_None == <<78, 111, 110, 101>>
\* "smtp"
S_host == <<115, 109, 116, 112>>

----------------------------------------------------------------------------
(* SmtpConfig, UserConfig and config.json *)

\* SmtpConfig(): kind tells a dataclass instance (attributes) from a dict (keys)
SmtpConfig(email, password, server, port) ==
    [kind |-> "SmtpConfig", email |-> email, password |-> password,
     server |-> server, port |-> port]

DefaultPort == 587

SslPort == 465

UserConfig(full_name, primary_country, smtp) ==
    [full_name |-> full_name, primary_country |-> primary_country, smtp |-> smtp]

DefaultUserConfig ==
    UserConfig(S_empty, S_empty, SmtpConfig(S_empty, S_empty, S_empty, DefaultPort))

UserConfigFields == {"full_name", "primary_country", "smtp"}

\* dataclasses.asdict: the dataclass instances become dicts, recursively
asdict(cfg) == [cfg EXCEPT !.smtp.kind = "dict"]

\* config.json after _save_config
_save_config(cfg) ==
    LET config_to_save == asdict(cfg)
    IN  [st |-> "json",
         data |-> IF config_to_save.smtp.password # S_empty
                  THEN [config_to_save EXCEPT
                           !.smtp.password = _obfuscate(config_to_save.smtp.password)]
                  ELSE config_to_save]

\* UserConfig(**data): TypeError on a key that is no field, defaults for the
\* fields data lacks, and data's values as they are (smtp stays a dict)
UserConfigFromDict(data) ==
    UserConfig(IF "full_name" \in DOMAIN data THEN data.full_name ELSE S_empty,
               IF "primary_country" \in DOMAIN data THEN data.primary_country
               ELSE S_empty,
               IF "smtp" \in DOMAIN data THEN data.smtp
               ELSE DefaultUserConfig.smtp)

\* _load_config on file f: the exception that leaves it ("" when none), whether
\* the warning was printed, and the UserConfig returned
_load_config(f) ==
    IF f.st = "missing"
    THEN [exc |-> "", warned |-> FALSE, config |-> DefaultUserConfig]
    ELSE IF f.st = "invalid_json"
    THEN [exc |-> "", warned |-> TRUE, config |-> DefaultUserConfig]
    ELSE IF f.st = "json_array"
    THEN [exc |-> "AttributeError", warned |-> FALSE, config |-> DefaultUserConfig]
    ELSE
        LET data == f.data
            stored == IF "smtp" \in DOMAIN data THEN data.smtp.password ELSE S_empty
            clear == IF stored # S_empty THEN _deobfuscate(stored) ELSE stored
            data2 == IF stored # S_empty
                     THEN [data EXCEPT !.smtp.password = clear]
                     ELSE data
        IN  IF clear = <<-1>>
            THEN [exc |-> "ValueError", warned |-> FALSE, config |-> DefaultUserConfig]
            ELSE IF ~(DOMAIN data \subseteq UserConfigFields)
            THEN [exc |-> "", warned |-> TRUE, config |-> DefaultUserConfig]
            ELSE [exc |-> "", warned |-> FALSE, config |-> UserConfigFromDict(data2)]

----------------------------------------------------------------------------
(* Values the variables hold where an operation does not use them *)

NoArgs == [country |-> None, type |-> None, target_name |-> None,
           clear_config |-> FALSE]

NoFile == [st |-> "missing"]

NoUserInfo == [identifiers |-> << >>]

NoHist == [op |-> "none"]

----------------------------------------------------------------------------
(* Saving the profile and loading it again *)

PwAlphabet == {97, 48, 233}

RT_Profiles ==
    {UserConfig(n, c, [kind |-> k, email |-> e, password |-> p,
                       server |-> S_host, port |-> q]) :
        n \in {S_empty, S_Ada}, c \in {S_empty, S_SE}, k \in {"SmtpConfig", "dict"},
        e \in {S_empty, S_mail}, p \in StringsUpTo(PwAlphabet, MaxPwLen),
        q \in {DefaultPort, SslPort}}

RT_Init ==
    /\ pc = "rt_start"
    /\ config \in RT_Profiles
    /\ cfgFile = NoFile
    /\ args = NoArgs /\ targetsFile = NoFile /\ countriesFile = NoFile
    /\ targets = << >> /\ user_info = NoUserInfo /\ chrome_service = FALSE
    /\ driver = FALSE /\ idx = 0 /\ out = << >> /\ exitCode = None
    /\ inputs = << >> /\ hist = NoHist /\ tmplFile = NoFile

\* _save_config()
RT_Save ==
    /\ pc = "rt_start"
    /\ cfgFile' = _save_config(config)
    /\ out' = Append(out, [ev |-> "saved"])
    /\ pc' = "rt_saved"
    /\ UNCHANGED <<args, targetsFile, countriesFile, config, targets, user_info,
                   chrome_service, driver, idx, exitCode, inputs, hist, tmplFile>>

\* _load_config() in the next run
RT_Load ==
    /\ pc = "rt_saved"
    /\ hist' = [op |-> "_load_config", res |-> _load_config(cfgFile)]
    /\ pc' = "rt_loaded"
    /\ UNCHANGED <<args, cfgFile, targetsFile, countriesFile, config, targets,
                   user_info, chrome_service, driver, idx, out, exitCode, inputs,
                   tmplFile>>

RT_Next == RT_Save \/ RT_Load

SpecRoundTrip == RT_Init /\ [][RT_Next]_vars

\* C6: saving the profile and loading it again gives back the full name, the
\* primary country and the decoded password; the password in the file, when the
\* password is not empty, is not the clear text but its base64 encoding (a
\* multiple of 4 characters of the base64 alphabet that decode to its utf-8).
C6_RoundTrip ==
    pc = "rt_loaded" =>
        /\ hist.res.exc = ""
        /\ ~hist.res.warned
        /\ hist.res.config.full_name = config.full_name
        /\ hist.res.config.primary_country = config.primary_country
        /\ hist.res.config.smtp.password = config.smtp.password
        /\ config.smtp.password # S_empty =>
            LET w == cfgFile.data.smtp.password
            IN  /\ w # config.smtp.password
                /\ Len(w) % 4 = 0
                /\ \A i \in 1..Len(w) : w[i] = B64Pad \/ B64Char(B64Val(w[i])) = w[i]
                /\ B64Decode(w) = Utf8Encode(config.smtp.password)

\* a profile with a three-byte password ("a" and "e acute") saved and reloaded
C6_Witness ==
    /\ pc = "rt_loaded"
    /\ config.smtp.password = <<97, 233>>
    /\ cfgFile.data.smtp.password = <<89, 99, 79, 112>>
    /\ config.full_name = S_Ada

----------------------------------------------------------------------------
(* Targets and _filter_targets *)

\* the five types of the dispatch table, and one that is not in it ("fax")
T_email == <<101, 109, 97, 105, 108>>
T_webform == <<119, 101, 98, 102, 111, 114, 109>>
T_manual_eid == <<109, 97, 110, 117, 97, 108, 95, 101, 105, 100>>
T_mrkoll_flow == <<109, 114, 107, 111, 108, 108, 95, 102, 108, 111, 119>>
T_ratsit_flow == <<114, 97, 116, 115, 105, 116, 95, 102, 108, 111, 119>>
T_fax == <<102, 97, 120>>

\* "Ab", "b", and the name filters "a", "B"
S_Ab == <<65, 98>>
S_b == <<98>>
S_a == <<97>>
S_B == <<66>>

\* dict.get(key, default)
Get(d, key, default) == IF key \in DOMAIN d THEN d[key] ELSE default

\* print(...): kind is the colour of the message (FAIL, WARNING, INFO), i the
\* target being processed when it is printed (0 outside the loop)
Msg(kind, msg, i) == [ev |-> "print", k |-> kind, msg |-> msg, i |-> i]

\* the country _filter_targets filters on, None when it filters on none:
\* the --country flag, else the primary country of the profile
CountryFilter(a, cfg) ==
    IF Truthy(a.country) THEN a.country
    ELSE IF cfg.primary_country # S_empty THEN Some(cfg.primary_country)
    ELSE None

\* the type test of a _filter_targets that compares the type as it is written
TypeTestExact(t, a) == Get(t, "type", S_empty) = a.type[1]

\* line 109: t.get('type', '').lower() == self.args.type.lower()
TypeTest(t, a) == Lower(Get(t, "type", S_empty)) = Lower(a.type[1])

\* _filter_targets(): exit is TRUE when it ends the process (with code 0)
_filter_targets(all_targets, a, cfg) ==
    LET cf == CountryFilter(a, cfg)
        f1 == IF Truthy(cf)
              THEN SelectSeq(all_targets,
                       LAMBDA t : Lower(Get(t, "country", S_empty)) = Lower(cf[1]))
              ELSE all_targets
        p1 == IF Truthy(a.country) THEN <<Msg("INFO", "country_flag", 0)>>
              ELSE IF Truthy(cf) THEN <<Msg("INFO", "primary_country", 0)>>
              ELSE << >>
        f2 == IF Truthy(a.type)
              THEN SelectSeq(f1, LAMBDA t : TypeTest(t, a))
              ELSE f1
        f3 == IF Truthy(a.target_name)
              THEN SelectSeq(f2,
                       LAMBDA t : Contains(Lower(a.target_name[1]),
                                           Lower(Get(t, "name", S_empty))))
              ELSE f2
    IN  IF f3 = << >>
        THEN [exit |-> TRUE, targets |-> f3,
              prints |-> Append(p1, Msg("FAIL", "no_match", 0))]
        ELSE [exit |-> FALSE, targets |-> f3, prints |-> p1]

\* target records for the filter: the country in either case or missing, the
\* type in either case or missing, two names or none
F_Pool ==
    {[country |-> c, type |-> ty, name |-> S_Ab] :
        c \in {S_SE, S_se, S_US}, ty \in {T_email, T_webform}}
    \cup {[country |-> S_SE, type |-> T_email, name |-> S_b],
          [type |-> Upper(T_email), name |-> S_b],
          [country |-> S_se]}

F_Lists == UNION {[1..k -> F_Pool] : k \in 0..MaxTargets}

F_Init ==
    /\ pc = "f_start"
    /\ args \in [country : {None, Some(S_empty), Some(S_se), Some(S_US)},
                 type : {None, Some(T_email), Some(Upper(T_email))},
                 target_name : {None, Some(S_a), Some(S_B)},
                 clear_config : {FALSE}]
    /\ config \in {[DefaultUserConfig EXCEPT !.primary_country = c] :
                      c \in {S_empty, S_SE}}
    /\ targetsFile \in {[st |-> "json", data |-> l] : l \in F_Lists}
    /\ cfgFile = NoFile /\ countriesFile = NoFile
    /\ targets = << >> /\ user_info = NoUserInfo /\ chrome_service = FALSE
    /\ driver = FALSE /\ idx = 0 /\ out = << >> /\ exitCode = None
    /\ inputs = << >> /\ hist = NoHist /\ tmplFile = NoFile

\* self.targets = self._filter_targets()
F_Filter ==
    /\ pc = "f_start"
    /\ LET r == _filter_targets(targetsFile.data, args, config)
       IN  /\ out' = out \o r.prints
           /\ targets' = IF r.exit THEN targets ELSE r.targets
           /\ exitCode' = IF r.exit THEN Some(0) ELSE exitCode
           /\ pc' = IF r.exit THEN "exited" ELSE "f_done"
    /\ UNCHANGED <<args, cfgFile, targetsFile, countriesFile, config, user_info,
                   chrome_service, driver, idx, inputs, hist, tmplFile>>

F_Next == F_Filter

SpecFilter == F_Init /\ [][F_Next]_vars

\* target t passes the filters, the country filter being cf
F_Passes(t, cf) ==
    /\ Truthy(cf) =>
        "country" \in DOMAIN t /\ Lower(t.country) = Lower(cf[1])
    /\ Truthy(args.type) =>
        "type" \in DOMAIN t /\ Lower(t.type) = Lower(args.type[1])
    /\ Truthy(args.target_name) =>
        "name" \in DOMAIN t /\ Contains(Lower(args.target_name[1]), Lower(t.name))

\* the run has filtered: the targets kept are exactly `want`, or the process
\* has ended with code 0 when `want` is empty
F_Result(want) ==
    IF want = << >>
    THEN pc = "exited" /\ exitCode = Some(0) /\ targets = << >>
    ELSE pc = "f_done" /\ exitCode = None /\ targets = want

\* C3 as stated: the country filter is the --country flag, and an absent flag
\* excludes nothing.
C3_FlagOnly ==
    pc # "f_start" =>
        F_Result(SelectSeq(targetsFile.data, LAMBDA t : F_Passes(t, args.country)))

\* C3, amended: _filter_targets keeps, in their order, exactly the targets that
\* pass the country, type and name filters, all case-insensitive, where the
\* country filter is the --country flag or, without the flag, the primary country
\* of the profile when one is set; with nothing kept the process exits 0.
C3_Filter ==
    pc # "f_start" =>
        F_Result(SelectSeq(targetsFile.data,
            LAMBDA t : F_Passes(t, IF Truthy(args.country) THEN args.country
                                   ELSE Some(config.primary_country))))

\* country "se" and type "EMAIL" keep the second of two targets, whose country
\* is "SE" and type "email"
C3_Witness ==
    /\ pc = "f_done"
    /\ args.country = Some(S_se) /\ args.type = Some(Upper(T_email))
    /\ Len(targetsFile.data) = 2
    /\ targets = <<targetsFile.data[2]>>
    /\ targets[1].country = S_SE /\ targets[1].type = T_email

----------------------------------------------------------------------------
(* SafeDict and _get_email_content *)

\* keys of the format dictionary: "full_name", "email", "pnr", "missing_key"
K_full_name == <<102, 117, 108, 108, 95, 110, 97, 109, 101>>
K_email == <<101, 109, 97, 105, 108>>
K_pnr == <<112, 110, 114>>
K_missing_key == <<109, 105, 115, 115, 105, 110, 103, 95, 107, 101, 121>>

\* "Subject: ", "Hi", "Hello ", ", id=", "Hello Ada, id=", "12", "x"
S_SubjectPrefix == <<83, 117, 98, 106, 101, 99, 116, 58, 32>>
S_Hi == <<72, 105>>
S_Hello == <<72, 101, 108, 108, 111, 32>>
S_id == <<44, 32, 105, 100, 61>>
S_HelloAda == <<72, 101, 108, 108, 111, 32, 65, 100, 97, 44, 32, 105, 100, 61>>
S_12 == <<49, 50>>
S_x == <<120>>

\* the characters '\n', '{', '}'
NL == 10
LBrace == 123
RBrace == 125

Whitespace == {32, 9, 10, 13}

RECURSIVE LStrip(_)
LStrip(s) ==
    IF s # << >> /\ s[1] \in Whitespace THEN LStrip(Tail(s)) ELSE s

RECURSIVE RStrip(_)
RStrip(s) ==
    IF s # << >> /\ s[Len(s)] \in Whitespace
    THEN RStrip(SubSeq(s, 1, Len(s) - 1))
    ELSE s

\* str.strip()
Strip(s) == RStrip(LStrip(s))

\* s starts with pat
StartsWith(s, pat) == Len(pat) <= Len(s) /\ SubSeq(s, 1, Len(pat)) = pat

RECURSIVE RemoveAll(_, _)
\* str.replace(pat, "")
RemoveAll(s, pat) ==
    IF s = << >> THEN << >>
    ELSE IF StartsWith(s, pat) THEN RemoveAll(SubSeq(s, Len(pat) + 1, Len(s)), pat)
    ELSE <<s[1]>> \o RemoveAll(Tail(s), pat)

\* the index of the first c in s at or after i, 0 when there is none
IndexFrom(s, c, i) ==
    IF \E j \in i..Len(s) : s[j] = c
    THEN CHOOSE j \in i..Len(s) : s[j] = c /\ \A k \in i..(j - 1) : s[k] # c
    ELSE 0

\* a dict without __missing__: the lookup of a missing key raises KeyError
DictMissing(key) == [exc |-> TRUE, v |-> None]

\* SafeDict.__missing__
SafeDict__missing__(key) == [exc |-> FALSE, v |-> Some(S_empty)]

\* format_dict[key]
SafeDictGet(d, key) ==
    IF key \in DOMAIN d THEN [exc |-> FALSE, v |-> d[key]]
    ELSE SafeDict__missing__(key)

\* format(value, ''): str(value), "None" for None
FormatValue(v) == IF v = None THEN S_None ELSE v[1]

\* characters that make a replacement field more than a name: attribute and
\* index access, conversion, format spec, a nested field
FieldSyntax == {46, 91, 33, 58, LBrace}

Digits == 48..57

RECURSIVE FormatFrom(_, _, _)
\* str.format_map(d) from position i of s: literal text, "{{" and "}}", and
\* "{name}" fields; ok is FALSE when it raises (a single brace, a field that is
\* not closed, a positional field, a key the mapping raises for).  Fields with
\* FieldSyntax characters are outside the model and are made to raise.
FormatFrom(s, i, d) ==
    IF i > Len(s) THEN [ok |-> TRUE, v |-> << >>]
    ELSE IF s[i] = LBrace /\ i < Len(s) /\ s[i + 1] = LBrace THEN
        LET r == FormatFrom(s, i + 2, d)
        IN  [ok |-> r.ok, v |-> <<LBrace>> \o r.v]
    ELSE IF s[i] = RBrace /\ i < Len(s) /\ s[i + 1] = RBrace THEN
        LET r == FormatFrom(s, i + 2, d)
        IN  [ok |-> r.ok, v |-> <<RBrace>> \o r.v]
    ELSE IF s[i] = RBrace THEN [ok |-> FALSE, v |-> << >>]
    ELSE IF s[i] = LBrace THEN
        LET j == IndexFrom(s, RBrace, i + 1)
            name == SubSeq(s, i + 1, j - 1)
        IN  IF j = 0 \/ name = << >> \/ (\A k \in 1..Len(name) : name[k] \in Digits)
               \/ (\E k \in 1..Len(name) : name[k] \in FieldSyntax)
            THEN [ok |-> FALSE, v |-> << >>]
            ELSE
                LET g == SafeDictGet(d, name)
                    r == FormatFrom(s, j + 1, d)
                IN  IF g.exc THEN [ok |-> FALSE, v |-> << >>]
                    ELSE [ok |-> r.ok, v |-> FormatValue(g.v) \o r.v]
    ELSE
        LET r == FormatFrom(s, i + 1, d)
        IN  [ok |-> r.ok, v |-> <<s[i]>> \o r.v]

format_map(s, d) == FormatFrom(s, 1, d)

\* user_info.get(key): None when the key is not set
UserInfoGet(ui, key) == IF key \in DOMAIN ui THEN Some(ui[key]) ELSE None

\* lines 206-207: SafeDict({"full_name": ..., "email": ...}), updated with the
\* identifiers of the country
FormatDict(ui, country_code) ==
    LET ids == IF country_code # S_empty /\ country_code \in DOMAIN ui.identifiers
               THEN ui.identifiers[country_code]
               ELSE << >>
    IN  [k \in {K_full_name, K_email} \cup DOMAIN ids |->
            IF k \in DOMAIN ids THEN Some(ids[k])
            ELSE IF k = K_full_name THEN UserInfoGet(ui, "full_name")
            ELSE UserInfoGet(ui, "email")]

TemplateError(i) ==
    [subject |-> None, body |-> None, prints |-> <<Msg("FAIL", "template_error", i)>>]

\* _get_email_content() on template file tf: (subject, body), or (None, None)
\* and a message when anything in it raises
_get_email_content(tf, ui, country_code, i) ==
    IF tf.st = "missing" THEN TemplateError(i)
    ELSE
        LET content == Strip(tf.content)
            n == IndexFrom(content, NL, 1)
            subject == SubSeq(content, 1, n - 1)
            body == SubSeq(content, n + 1, Len(content))
            r == format_map(Strip(body), FormatDict(ui, country_code))
        IN  IF n = 0 \/ ~r.ok THEN TemplateError(i)
            ELSE [subject |-> Some(Strip(RemoveAll(subject, S_SubjectPrefix))),
                  body |-> Some(r.v), prints |-> << >>]

----------------------------------------------------------------------------
(* Rendering a template *)

\* a template body is written from tokens: literal text, an escaped brace
\* ("{{" or "}}"), or a placeholder "{name}"
TokenText(t) ==
    IF "lit" \in DOMAIN t THEN t.lit
    ELSE IF "esc" \in DOMAIN t THEN <<t.esc, t.esc>>
    ELSE <<LBrace>> \o t.ph \o <<RBrace>>

TemplateText(tokens) ==
    S_SubjectPrefix \o S_Hi \o <<NL>>
    \o Concat([k \in 1..Len(tokens) |-> TokenText(tokens[k])])

R_Tokens ==
    {[lit |-> S_x], [esc |-> LBrace], [esc |-> RBrace]}
    \cup {[ph |-> k] : k \in {K_full_name, K_email, K_pnr, K_missing_key}}

\* "Hello {full_name}, id={missing_key}"
R_Example ==
    <<[lit |-> S_Hello], [ph |-> K_full_name], [lit |-> S_id], [ph |-> K_missing_key]>>

R_TokenLists == {R_Example} \cup UNION {[1..k -> R_Tokens] : k \in 1..MaxTokens}

\* template files that are not written from tokens: no file, a subject line
\* alone, a field that is not closed, a positional field
R_BadFiles ==
    {[st |-> "missing"],
     [st |-> "text", content |-> S_SubjectPrefix \o S_Hi],
     [st |-> "text", content |-> S_Hi \o <<NL, LBrace>> \o K_email],
     [st |-> "text", content |-> S_Hi \o <<NL, LBrace, RBrace>>]}

\* user_info once _get_user_info and _get_smtp_config have run
R_UserInfos ==
    {[identifiers |-> ids, full_name |-> n, email |-> S_mail] :
        n \in {S_empty, S_Ada},
        ids \in {<< >>, (S_SE :> << >>), (S_SE :> (K_pnr :> S_12))}}

\* an email target, with or without a country
EmailTargets ==
    {[name |-> S_Ab, type |-> T_email, contact |-> S_mail, template |-> S_x],
     [name |-> S_Ab, type |-> T_email, contact |-> S_mail, template |-> S_x,
      country |-> S_se]}

R_Init ==
    /\ pc = "r_start"
    /\ \/ \E tk \in R_TokenLists :
            /\ tmplFile = [st |-> "text", content |-> TemplateText(tk)]
            /\ hist = [op |-> "template", tokens |-> Some(tk)]
       \/ /\ tmplFile \in R_BadFiles
          /\ hist = [op |-> "template", tokens |-> None]
    /\ user_info \in R_UserInfos
    /\ targets \in {<<t>> : t \in EmailTargets}
    /\ idx = 1
    /\ config = DefaultUserConfig /\ cfgFile = NoFile
    /\ args = NoArgs /\ targetsFile = NoFile /\ countriesFile = NoFile
    /\ chrome_service = FALSE /\ driver = FALSE /\ out = << >>
    /\ exitCode = None /\ inputs = << >>

\* line 229 and line 231 of _handle_email
R_Render ==
    /\ pc = "r_start"
    /\ LET country_code == Upper(Get(targets[idx], "country", S_empty))
           r == _get_email_content(tmplFile, user_info, country_code, idx)
       IN  /\ hist' = [op |-> "_get_email_content", tokens |-> hist.tokens,
                       subject |-> r.subject, body |-> r.body]
           /\ out' = out \o r.prints
    /\ pc' = "r_done"
    /\ UNCHANGED <<args, cfgFile, targetsFile, countriesFile, config, targets,
                   user_info, chrome_service, driver, idx, exitCode, inputs,
                   tmplFile>>

R_Next == R_Render

SpecRender == R_Init /\ [][R_Next]_vars

\* the value collected under name for the target of the run: the full name, the
\* email address or an identifier of the target's country; None when there is none
R_Known(name) ==
    LET cc == IF "country" \in DOMAIN targets[1] THEN Upper(targets[1].country)
              ELSE S_empty
    IN  IF name = K_full_name THEN Some(user_info.full_name)
        ELSE IF name = K_email THEN Some(user_info.email)
        ELSE IF cc \in DOMAIN user_info.identifiers
                /\ name \in DOMAIN user_info.identifiers[cc]
        THEN Some(user_info.identifiers[cc][name])
        ELSE None

\* what a token stands for in the rendered body
R_TokenValue(t) ==
    IF "lit" \in DOMAIN t THEN t.lit
    ELSE IF "esc" \in DOMAIN t THEN <<t.esc>>
    ELSE IF R_Known(t.ph) = None THEN S_empty
    ELSE R_Known(t.ph)[1]

\* C4: for a template body written from literal text and {name} placeholders,
\* _get_email_content does not fail: it returns the body with each placeholder
\* that has a collected value replaced by the value and each other placeholder
\* by the empty string, and prints no error.
C4_RenderTotal ==
    (pc = "r_done" /\ hist.tokens # None) =>
        LET tk == hist.tokens[1]
        IN  /\ hist.body = Some(Concat([k \in 1..Len(tk) |-> R_TokenValue(tk[k])]))
            /\ hist.subject = Some(S_Hi)
            /\ out = << >>

\* "Hello {full_name}, id={missing_key}" with full name "Ada" gives
\* "Hello Ada, id="
C4_Witness ==
    /\ pc = "r_done"
    /\ hist.tokens = Some(R_Example)
    /\ tmplFile.content = S_SubjectPrefix \o S_Hi \o <<NL>> \o S_Hello
                          \o <<LBrace>> \o K_full_name \o <<RBrace>> \o S_id
                          \o <<LBrace>> \o K_missing_key \o <<RBrace>>
    /\ user_info.full_name = S_Ada
    /\ hist.body = Some(S_HelloAda)

----------------------------------------------------------------------------
(* _get_user_info *)

\* identifier keys "phone" and "nick"
K_phone == <<112, 104, 111, 110, 101>>
K_nick == <<110, 105, 99, 107>>

\* a validation_regex of the shape \d{min,max} with or without a closing $;
\* max = -1 is no upper limit (\d+ is min 1, max -1)
Regex(min, max, end) == [min |-> min, max |-> max, end |-> end]

\* re.match(rx, value): the pattern matches at the start of value
ReMatch(rx, value) ==
    \E k \in rx.min..Len(value) :
        /\ rx.max = -1 \/ k <= rx.max
        /\ \A i \in 1..k : value[i] \in Digits
        /\ rx.end => k = Len(value)

\* a < b in the order sorted() puts strings in
LexLess(a, b) ==
    \E k \in 1..(Len(b)) :
        /\ \A i \in 1..(k - 1) : i <= Len(a) /\ a[i] = b[i]
        /\ Len(a) < k \/ a[k] < b[k]

RECURSIVE Sorted(_)
\* sorted(list(S))
Sorted(S) ==
    IF S = {} THEN << >>
    ELSE LET m == CHOOSE x \in S : \A y \in S \ {x} : LexLess(x, y)
         IN  <<m>> \o Sorted(S \ {m})

\* line 161: the upper-cased countries of the targets that have one
CountriesInTargets(ts) ==
    {Upper(ts[i].country) : i \in {j \in 1..Len(ts) : Get(ts[j], "country", S_empty) # S_empty}}

\* what the two loops of lines 164-176 will go through: for each country that
\* has a config, the country and then a prompt for each of its identifiers
PromptList(ts, country_configs) ==
    LET codes == Sorted(CountriesInTargets(ts))
    IN  Concat([n \in 1..Len(codes) |->
            IF codes[n] \in DOMAIN country_configs
            THEN <<[country |-> codes[n]]>>
                 \o [m \in 1..Len(country_configs[codes[n]].identifiers) |->
                        [cc |-> codes[n], id |-> country_configs[codes[n]].identifiers[m]]]
            ELSE << >>])

RECURSIVE EnterCountries(_, _)
\* line 169 for the countries at the head of the list: identifiers[cc] = {};
\* stops at the next prompt
EnterCountries(todo, ui) ==
    IF todo # << >> /\ "country" \in DOMAIN Head(todo)
    THEN EnterCountries(Tail(todo),
             [ui EXCEPT !.identifiers = (Head(todo).country :> << >>) @@ @])
    ELSE [todo |-> todo, ui |-> ui]

\* line 173: an empty value for an optional identifier leaves the loop
SkipsOptional(id, value) == value = S_empty /\ id.optional

\* line 174: the value fails the identifier's validation_regex
Rejects(id, value) ==
    id.validation_regex # None /\ ~ReMatch(id.validation_regex[1], value)

\* the other variables of the run, which _get_user_info leaves alone
UI_Unchanged ==
    UNCHANGED <<args, cfgFile, targetsFile, countriesFile, targets,
                chrome_service, driver, idx, exitCode, hist, tmplFile>>

\* lines 156-169: the name prompt, then up to the first identifier prompt
GetUserInfoName(v, next) ==
    /\ pc = "ui_name"
    /\ LET full_name == IF v # S_empty THEN v ELSE config.full_name
           e == EnterCountries(PromptList(targets, countriesFile.data),
                               [full_name |-> full_name] @@ user_info)
       IN  /\ config' = [config EXCEPT !.full_name = full_name]
           /\ user_info' = e.ui
           /\ inputs' = [todo |-> e.todo, tries |-> 0, last |-> None]
           /\ pc' = IF e.todo = << >> THEN next ELSE "ui_field"
    /\ out' = Append(out, [ev |-> "input", prompt |-> "full_name", i |-> 0])
    /\ UI_Unchanged

\* one pass of the while loop of lines 171-176 on the value typed; inputs.last
\* is the value the "Invalid format" message was last printed for, inputs.tries
\* how many times in a row it was printed (counted up to MaxTries)
GetUserInfoField(value, next) ==
    /\ pc = "ui_field"
    /\ LET f == Head(inputs.todo)
       IN  IF SkipsOptional(f.id, value)
           THEN LET e == EnterCountries(Tail(inputs.todo), user_info)
                IN  /\ user_info' = e.ui
                    /\ inputs' = [todo |-> e.todo, tries |-> 0, last |-> None]
                    /\ pc' = IF e.todo = << >> THEN next ELSE "ui_field"
           ELSE IF Rejects(f.id, value)
           THEN /\ inputs' = [inputs EXCEPT
                                 !.tries = IF @ < MaxTries THEN @ + 1 ELSE @,
                                 !.last = Some(value)]
                /\ UNCHANGED <<user_info, pc>>
           ELSE LET stored == [user_info EXCEPT
                                  !.identifiers[f.cc] = (f.id.key :> value) @@ @]
                    e == EnterCountries(Tail(inputs.todo), stored)
                IN  /\ user_info' = e.ui
                    /\ inputs' = [todo |-> e.todo, tries |-> 0, last |-> None]
                    /\ pc' = IF e.todo = << >> THEN next ELSE "ui_field"
    /\ UNCHANGED <<config, out>>
    /\ UI_Unchanged

----------------------------------------------------------------------------
(* Collecting the identifiers *)

\* what the user may type: digits and letters ("1", "a")
UI_Values == StringsUpTo({49, 97}, MaxInputLen)

\* identifier definitions: a required one that must be all digits (^\d+$), an
\* optional one that must start with two digits (\d{2}), a required and an
\* optional one without a rule
UI_Ids ==
    {[key |-> K_pnr, optional |-> FALSE, validation_regex |-> Some(Regex(1, -1, TRUE))],
     [key |-> K_phone, optional |-> TRUE, validation_regex |-> Some(Regex(2, 2, FALSE))],
     [key |-> K_nick, optional |-> FALSE, validation_regex |-> None],
     [key |-> K_nick, optional |-> TRUE, validation_regex |-> None]}

UI_IdLists ==
    {l \in UNION {[1..k -> UI_Ids] : k \in 0..2} :
        \A i, j \in 1..Len(l) : i # j => l[i].key # l[j].key}

\* countries.json: a config for SE, with or without one for US
UI_CountryConfigs ==
    {(S_SE :> [name |-> S_SE, identifiers |-> l]) : l \in UI_IdLists}
    \cup {(S_SE :> [name |-> S_SE, identifiers |-> l])
          @@ (S_US :> [name |-> S_US, identifiers |-> <<u>>]) :
            l \in UI_IdLists, u \in {x \in UI_Ids : x.key = K_pnr}}

UI_Targets ==
    {<<[name |-> S_Ab, type |-> T_manual_eid, url |-> S_x, country |-> S_se]>>,
     <<[name |-> S_Ab, type |-> T_manual_eid, url |-> S_x, country |-> S_US],
       [name |-> S_b, type |-> T_manual_eid, url |-> S_x, country |-> S_SE]>>,
     <<[name |-> S_Ab, type |-> T_manual_eid, url |-> S_x]>>}

UI_Init ==
    /\ pc = "ui_name"
    /\ config \in {[DefaultUserConfig EXCEPT !.full_name = n] : n \in {S_empty, S_Ada}}
    /\ targets \in UI_Targets
    /\ countriesFile \in {[st |-> "json", data |-> c] : c \in UI_CountryConfigs}
    /\ user_info = NoUserInfo
    /\ inputs = [todo |-> << >>, tries |-> 0, last |-> None]
    /\ cfgFile = NoFile /\ args = NoArgs /\ targetsFile = NoFile
    /\ chrome_service = FALSE /\ driver = FALSE /\ idx = 0 /\ out = << >>
    /\ exitCode = None /\ hist = NoHist /\ tmplFile = NoFile

UI_Name == \E v \in {S_empty, S_Ada} : GetUserInfoName(v, "ui_done")

UI_Field == \E v \in UI_Values : GetUserInfoField(v, "ui_done")

UI_Next == UI_Name \/ UI_Field

SpecUserInfo == UI_Init /\ [][UI_Next]_vars

\* the identifier prompts of the run, in order
UI_AllFields ==
    SelectSeq(PromptList(targets, countriesFile.data), LAMBDA x : "id" \in DOMAIN x)

\* the prompts that have been answered
UI_Passed ==
    SubSeq(UI_AllFields, 1,
           Len(UI_AllFields)
           - Len(SelectSeq(inputs.todo, LAMBDA x : "id" \in DOMAIN x)))

\* the value stored for field f, None when none is
UI_Stored(f) ==
    IF f.cc \in DOMAIN user_info.identifiers
       /\ f.id.key \in DOMAIN user_info.identifiers[f.cc]
    THEN Some(user_info.identifiers[f.cc][f.id.key])
    ELSE None

\* every stored identifier satisfies its validation rule
UI_StoredValid ==
    pc # "ui_name" =>
        \A n \in 1..Len(UI_AllFields) :
            LET f == UI_AllFields[n]
            IN  (UI_Stored(f) # None /\ f.id.validation_regex # None) =>
                    ReMatch(f.id.validation_regex[1], UI_Stored(f)[1])

\* a rejected input is not stored and the same field is prompted again, however
\* many times in a row
UI_Reprompts ==
    (pc = "ui_field" /\ inputs.last # None) =>
        /\ Rejects(Head(inputs.todo).id, inputs.last[1])
        /\ UI_Stored(Head(inputs.todo)) = None

\* only an optional identifier is left empty, and then nothing is stored for it
UI_OnlyOptionalEmpty ==
    pc # "ui_name" =>
        \A n \in 1..Len(UI_Passed) :
            LET f == UI_Passed[n]
            IN  /\ UI_Stored(f) = None => f.id.optional
                /\ UI_Stored(f) # None => UI_Stored(f)[1] # S_empty

\* C5: every stored identifier satisfies its rule, a rejected input is not
\* stored and re-prompts the same field, and only an identifier marked optional
\* is left empty, with no value stored for it.
C5_Identifiers == UI_StoredValid /\ UI_Reprompts /\ UI_OnlyOptionalEmpty

\* the required all-digits identifier: "aa" was rejected, then "11" stored
C5_Witness ==
    /\ pc = "ui_done"
    /\ S_SE \in DOMAIN user_info.identifiers
    /\ K_pnr \in DOMAIN user_info.identifiers[S_SE]
    /\ user_info.identifiers[S_SE][K_pnr] = <<49, 49>>

----------------------------------------------------------------------------
(* One run of the program: the files and the command line it starts from *)

\* the template file of SpecRender's example, and one whose body is a single
\* placeholder no value is collected for
Tmpl_Example == [st |-> "text", content |-> TemplateText(R_Example)]
Tmpl_Blank == [st |-> "text", content |-> TemplateText(<<[ph |-> K_missing_key]>>)]

\* "u", a URL; "#e", a CSS selector
S_url == <<117>>
S_sel == <<35, 101>>

\* records of targets.json: each type as the data model has it, and records
\* that lack a key a handler reads
TargetPool ==
    {[name |-> S_Ab, country |-> S_SE, type |-> T_email, contact |-> S_mail,
      template |-> S_x],
     [name |-> S_Ab, country |-> S_SE, type |-> T_email, contact |-> S_mail],
     [name |-> S_Ab, country |-> S_SE, type |-> T_email, template |-> S_x],
     [name |-> S_Ab, country |-> S_SE, type |-> T_webform, url |-> S_url,
      field_map |-> (K_email :> S_sel)],
     [name |-> S_Ab, country |-> S_SE, type |-> T_webform,
      field_map |-> (K_email :> S_sel)],
     [name |-> S_Ab, country |-> S_SE, type |-> T_webform, url |-> S_url],
     [name |-> S_Ab, country |-> S_SE, type |-> T_manual_eid, url |-> S_url],
     [name |-> S_Ab, country |-> S_US, type |-> T_manual_eid, url |-> S_url],
     [name |-> S_Ab, country |-> S_SE, type |-> T_manual_eid],
     [name |-> S_Ab, country |-> S_SE, type |-> T_mrkoll_flow, url |-> S_url],
     [name |-> S_Ab, country |-> S_SE, type |-> T_ratsit_flow, url |-> S_url],
     [name |-> S_Ab, country |-> S_SE, type |-> T_fax, url |-> S_url],
     [country |-> S_SE, type |-> T_manual_eid, url |-> S_url],
     [name |-> S_Ab, country |-> S_SE, url |-> S_url]}

TargetLists == UNION {[1..k -> TargetPool] : k \in 0..MaxTargets}

\* a profile an earlier run saved
SavedProfile ==
    _save_config(UserConfig(S_Ada, S_SE, SmtpConfig(S_mail, S_a, S_host, SslPort)))

\* config.json: missing, not JSON, a JSON array, a saved profile
ConfigFiles ==
    {[st |-> "missing"], [st |-> "invalid_json"], [st |-> "json_array"], SavedProfile}

\* countries.json: SE with one required identifier that must be all digits
CountryConfigs ==
    (S_SE :> [name |-> S_SE,
              identifiers |-> <<[key |-> K_pnr, optional |-> FALSE,
                                 validation_regex |-> Some(Regex(1, -1, TRUE))]>>])

\* the template can only matter to a list with an email target that names it
UsesTemplate(l) ==
    \E n \in 1..Len(l) : Get(l[n], "type", S_empty) = T_email /\ "template" \in DOMAIN l[n]

\* a run without filter flags, or with --clear-config (SpecFilter has the
\* filter flags); the files are as they may be found on disk
Init ==
    /\ pc = "start"
    /\ args \in {NoArgs, [NoArgs EXCEPT !.clear_config = TRUE]}
    /\ cfgFile \in ConfigFiles
    /\ targetsFile \in {[st |-> "missing"], [st |-> "invalid_json"]}
                       \cup {[st |-> "json", data |-> l] : l \in TargetLists}
    /\ countriesFile \in {[st |-> "missing"], [st |-> "invalid_json"],
                          [st |-> "json", data |-> CountryConfigs]}
    /\ tmplFile \in {Tmpl_Example, Tmpl_Blank}
    /\ tmplFile = Tmpl_Blank => targetsFile.st = "json" /\ UsesTemplate(targetsFile.data)
    /\ config = DefaultUserConfig
    /\ targets = << >>
    /\ user_info = NoUserInfo
    /\ chrome_service = FALSE
    /\ driver = FALSE
    /\ idx = 0
    /\ out = << >>
    /\ exitCode = None
    /\ inputs = [todo |-> << >>, tries |-> 0, last |-> None]
    /\ hist = NoHist

\* sys.exit(code) after `said` was printed
Exit(code, said) ==
    /\ pc' = "exited"
    /\ exitCode' = Some(code)
    /\ out' = out \o said

\* an exception nothing catches leaves the program: the interpreter prints a
\* traceback and the process ends with code 1
Crash(exc, said) ==
    Exit(1, Append(said, [ev |-> "traceback", exc |-> exc, i |-> idx]))

\* a _load_json that ends the process with code 0
LoadJsonExitsZero(said) == Exit(0, said)

\* lines 123 and 125: sys.exit(1) after the message
LoadJsonExits(said) == Exit(1, said)

\* _load_json(file_path): the parsed value, or exit 1 after a message
_load_json(f) ==
    IF f.st = "missing" THEN [exit |-> TRUE, prints |-> <<Msg("FAIL", "not_found", 0)>>]
    ELSE IF f.st = "invalid_json"
    THEN [exit |-> TRUE, prints |-> <<Msg("FAIL", "invalid_json", 0)>>]
    ELSE [exit |-> FALSE, prints |-> << >>]

\* lines 371-375: --clear-config deletes config.json when it is there, and exits 0
ClearConfig ==
    /\ pc = "start"
    /\ args.clear_config
    /\ cfgFile' = NoFile
    /\ Exit(0, IF cfgFile.st # "missing" THEN <<Msg("INFO", "deleted", 0)>>
               ELSE <<Msg("WARNING", "config_not_found", 0)>>)
    /\ UNCHANGED <<args, targetsFile, countriesFile, config, targets, user_info,
                   chrome_service, driver, idx, inputs, hist, tmplFile>>

\* DataRemovalBot.__init__: _load_config, _load_json twice, _filter_targets
Construct ==
    /\ pc = "start"
    /\ ~args.clear_config
    /\ LET lc == _load_config(cfgFile)
           warned == IF lc.warned THEN <<Msg("WARNING", "config_unreadable", 0)>>
                     ELSE << >>
           lt == _load_json(targetsFile)
           lk == _load_json(countriesFile)
           ft == _filter_targets(targetsFile.data, args, lc.config)
       IN  IF lc.exc # "" THEN Crash(lc.exc, << >>) /\ UNCHANGED <<config, targets>>
           ELSE IF lt.exit
           THEN LoadJsonExits(warned \o lt.prints) /\ config' = lc.config
                /\ UNCHANGED targets
           ELSE IF lk.exit
           THEN LoadJsonExits(warned \o lk.prints) /\ config' = lc.config
                /\ UNCHANGED targets
           ELSE IF ft.exit
           THEN Exit(0, warned \o ft.prints) /\ config' = lc.config
                /\ UNCHANGED targets
           ELSE /\ config' = lc.config
                /\ targets' = ft.targets
                /\ out' = out \o warned \o ft.prints
                /\ pc' = "setup"
                /\ UNCHANGED exitCode
    /\ UNCHANGED <<args, cfgFile, targetsFile, countriesFile, user_info,
                   chrome_service, driver, idx, inputs, hist, tmplFile>>

\* line 128: the countries of the targets, as written
AvailableCountries == {targets[n].country : n \in {m \in 1..Len(targets) : "country" \in DOMAIN targets[m]}}

\* lines 327-328: _interactive_country_selection is called and goes on to prompt
AsksCountries ==
    /\ ~Truthy(args.country)
    /\ config.primary_country = S_empty
    /\ Cardinality(AvailableCountries) > 1

\* _setup up to _get_user_info when no country is asked for
SetupNoSelection ==
    /\ pc = "setup"
    /\ ~AsksCountries
    /\ pc' = "ui_name"
    /\ UNCHANGED <<args, cfgFile, targetsFile, countriesFile, config, targets,
                   user_info, chrome_service, driver, idx, out, exitCode, inputs,
                   hist, tmplFile>>

\* _interactive_country_selection with a valid choice `selected` (an invalid
\* one prompts again and changes nothing); one country chosen is offered as
\* the primary country, makePrimary is the answer
SelectCountries(selected, makePrimary) ==
    /\ pc = "setup"
    /\ AsksCountries
    /\ selected # {} /\ selected \subseteq AvailableCountries
    /\ LET kept == SelectSeq(targets, LAMBDA t : "country" \in DOMAIN t
                                                 /\ t.country \in selected)
           asked == [ev |-> "input", prompt |-> "countries", i |-> 0]
           chosen == CHOOSE c \in selected : TRUE
       IN  IF Cardinality(selected) = 1 /\ chosen \notin DOMAIN countriesFile.data
           THEN /\ Crash("KeyError", <<asked>>)
                /\ UNCHANGED <<config, targets>>
           ELSE /\ targets' = kept
                /\ config' = IF Cardinality(selected) = 1 /\ makePrimary
                             THEN [config EXCEPT !.primary_country = chosen]
                             ELSE config
                /\ out' = out \o <<asked>>
                           \o IF Cardinality(selected) = 1
                              THEN <<[ev |-> "input", prompt |-> "set_primary", i |-> 0]>>
                              ELSE << >>
                /\ pc' = "ui_name"
                /\ UNCHANGED exitCode
    /\ UNCHANGED <<args, cfgFile, targetsFile, countriesFile, user_info,
                   chrome_service, driver, idx, inputs, hist, tmplFile>>

\* _get_user_info inside _setup: the name typed is "Ada", an identifier "12"
\* or "a" (SpecUserInfo has the other inputs)
SetupUserName == GetUserInfoName(S_Ada, "smtp_cfg")

SetupUserField == \E v \in {S_a, S_12} : GetUserInfoField(v, "smtp_cfg")

\* lines 330-333
TypesInTargets == {Get(targets[n], "type", S_empty) : n \in 1..Len(targets)}
needs_email == T_email \in TypesInTargets
needs_browser == TypesInTargets \cap {T_webform, T_mrkoll_flow, T_ratsit_flow} # {}
needs_email_address ==
    needs_email
    \/ \E n \in 1..Len(targets) : K_email \in DOMAIN Get(targets[n], "field_map", << >>)

RECURSIVE IntOf(_)
\* int(s) of a string of digits
IntOf(s) ==
    IF s = << >> THEN 0 ELSE IntOf(SubSeq(s, 1, Len(s) - 1)) * 10 + (s[Len(s)] - 48)

\* "465"
S_465 == <<52, 54, 53>>

\* lines 336-339: _get_smtp_config when an email is to be sent, or only the
\* address when a form asks for it.  useSaved is the answer to "Use saved SMTP
\* settings", port_str what is typed at the port prompt.  Reading an attribute
\* of smtp_config_obj raises AttributeError when it is a dict.
SetupSmtp(useSaved, port_str) ==
    /\ pc = "smtp_cfg"
    /\ LET smtp == config.smtp
           asked(what) == [ev |-> "input", prompt |-> what, i |-> 0]
       IN  IF needs_email
           THEN IF smtp.kind = "dict"
                THEN Crash("AttributeError", << >>) /\ UNCHANGED <<config, user_info>>
                ELSE IF smtp.email # S_empty /\ smtp.password # S_empty /\ useSaved
                THEN /\ user_info' = [email |-> smtp.email] @@ user_info
                     /\ out' = Append(out, asked("use_saved"))
                     /\ pc' = "driver_init"
                     /\ UNCHANGED <<config, exitCode>>
                ELSE IF port_str # S_empty /\ \E k \in 1..Len(port_str) : port_str[k] \notin Digits
                THEN Crash("ValueError", <<asked("smtp")>>)
                     /\ UNCHANGED <<config, user_info>>
                ELSE /\ config' = [config EXCEPT !.smtp =
                                     SmtpConfig(S_mail, S_a, S_host,
                                                IF port_str = S_empty THEN DefaultPort
                                                ELSE IntOf(port_str))]
                     /\ user_info' = [email |-> S_mail] @@ user_info
                     /\ out' = Append(out, asked("smtp"))
                     /\ pc' = "driver_init"
                     /\ UNCHANGED exitCode
           ELSE IF needs_email_address /\ smtp.kind = "dict"
           THEN Crash("AttributeError", << >>) /\ UNCHANGED <<config, user_info>>
           ELSE IF needs_email_address /\ smtp.email = S_empty
           THEN /\ config' = [config EXCEPT !.smtp.email = S_mail]
                /\ user_info' = [email |-> S_mail] @@ user_info
                /\ out' = Append(out, asked("email_for_forms"))
                /\ pc' = "driver_init"
                /\ UNCHANGED exitCode
           ELSE /\ pc' = "driver_init"
                /\ UNCHANGED <<config, user_info, out, exitCode>>
    /\ UNCHANGED <<args, cfgFile, targetsFile, countriesFile, targets,
                   chrome_service, driver, idx, inputs, hist, tmplFile>>

\* line 340 and _initialize_driver_service: ok is FALSE when ChromeService()
\* raises WebDriverException
SetupDriver(ok) ==
    /\ pc = "driver_init"
    /\ IF needs_browser
       THEN /\ chrome_service' = ok
            /\ out' = Append(out, IF ok THEN Msg("INFO", "driver_ready", 0)
                                  ELSE Msg("FAIL", "driver_unavailable", 0))
       ELSE UNCHANGED <<chrome_service, out>>
    /\ pc' = "ready"
    /\ UNCHANGED <<args, cfgFile, targetsFile, countriesFile, config, targets,
                   user_info, driver, idx, exitCode, inputs, hist, tmplFile>>

\* lines 342-345: the summary and "Ready to start?"
SetupReady(go) ==
    /\ pc = "ready"
    /\ IF targets = << >>
       THEN Exit(0, <<Msg("WARNING", "no_targets", 0)>>) /\ UNCHANGED idx
       ELSE IF ~go
       THEN Exit(0, <<[ev |-> "input", prompt |-> "ready", i |-> 0],
                      Msg("WARNING", "aborted", 0)>>)
            /\ UNCHANGED idx
       ELSE /\ out' = Append(out, [ev |-> "input", prompt |-> "ready", i |-> 0])
            /\ pc' = "dispatch"
            /\ idx' = 1
            /\ UNCHANGED exitCode
    /\ UNCHANGED <<args, cfgFile, targetsFile, countriesFile, config, targets,
                   user_info, chrome_service, driver, inputs, hist, tmplFile>>

----------------------------------------------------------------------------
(* _process_targets and the handlers *)

\* self.handlers
Handlers == {T_email, T_webform, T_manual_eid, T_mrkoll_flow, T_ratsit_flow}

\* where the handler of a type starts
HandlerPc(type) ==
    IF type = T_email THEN "h_email"
    ELSE IF type = T_webform THEN "h_webform"
    ELSE IF type = T_manual_eid THEN "h_manual"
    ELSE IF type = T_mrkoll_flow THEN "h_mrkoll"
    ELSE "h_ratsit"

Target == targets[idx]

Asked(what) == [ev |-> "input", prompt |-> what, i |-> idx]

\* the variables no step of the loop changes
LoopUnchanged ==
    UNCHANGED <<args, targetsFile, countriesFile, config, targets, user_info,
                chrome_service, inputs, hist, tmplFile>>

\* a loop that ends after the first target it gets through
NextTargetBreaks(said) ==
    /\ out' = out \o said
    /\ idx' = idx + 1
    /\ pc' = "save_prompt"
    /\ UNCHANGED exitCode

\* the handler has returned (then time.sleep(1)), or the type was skipped: on
\* to the next target, or past the loop to the save prompt
NextTarget(said) ==
    /\ out' = out \o said
    /\ idx' = idx + 1
    /\ pc' = IF idx + 1 <= Len(targets) THEN "dispatch" ELSE "save_prompt"
    /\ UNCHANGED exitCode

\* a dispatcher that indexes the table, self.handlers[type]: KeyError
UnknownTypeRaises(header) == Crash("KeyError", <<header>>) /\ UNCHANGED idx

\* line 353: the warning for a type that has no handler, and on to the next
UnknownType(header) ==
    NextTarget(<<header, Msg("WARNING", "unknown_type", idx)>>)

\* lines 350-353: the header, the lookup of the handler and its call, or the
\* warning for a type that has none
Dispatch ==
    /\ pc = "dispatch"
    /\ LET header == Msg("INFO", "processing", idx)
       IN  IF "name" \notin DOMAIN Target
           THEN Crash("KeyError", << >>) /\ UNCHANGED idx
           ELSE IF "type" \notin DOMAIN Target
           THEN Crash("KeyError", <<header>>) /\ UNCHANGED idx
           ELSE IF Target.type \notin Handlers
           THEN UnknownType(header)
           ELSE /\ out' = out \o <<header,
                                   [ev |-> "handler", type |-> Target.type, i |-> idx]>>
                /\ pc' = HandlerPc(Target.type)
                /\ UNCHANGED <<idx, exitCode>>
    /\ UNCHANGED <<cfgFile, driver>>
    /\ LoopUnchanged

\* templates/<name>.txt: the one template file of the model is templates/x.txt
TemplateFile(name) == IF name = Some(S_x) THEN tmplFile ELSE NoFile

\* _handle_email, with _send_email_with_config; smtp is what the mail server
\* does: "ok", "auth" (SMTPAuthenticationError) or "error" (any other exception)
HandleEmail(smtp) ==
    /\ pc = "h_email"
    /\ IF "contact" \notin DOMAIN Target
       THEN Crash("KeyError", << >>) /\ UNCHANGED idx
       ELSE
        LET template == IF "template" \in DOMAIN Target THEN Some(Target.template)
                        ELSE None
            country_code == Upper(Get(Target, "country", S_empty))
            preparing == Msg("INFO", "preparing_email", idx)
            r == _get_email_content(TemplateFile(template), user_info, country_code, idx)
        IN  IF r.body = None \/ r.body = Some(S_empty)
            THEN NextTarget(<<preparing>> \o r.prints)
            ELSE IF config.smtp.kind = "dict"
            THEN Crash("AttributeError", <<preparing>>) /\ UNCHANGED idx
            ELSE IF smtp = "ok"
            THEN NextTarget(<<preparing,
                              [ev |-> "email_sent", i |-> idx, to |-> Target.contact,
                               from |-> config.smtp.email, subject |-> r.subject[1],
                               body |-> r.body[1]],
                              Msg("INFO", "email_sent", idx)>>)
            ELSE IF smtp = "auth"
            THEN NextTarget(<<preparing, Msg("FAIL", "authentication_failed", idx)>>)
            ELSE NextTarget(<<preparing, Msg("FAIL", "error_sending", idx)>>)
    /\ UNCHANGED <<cfgFile, driver>>
    /\ LoopUnchanged

\* _handle_manual_eid up to its prompt
ManualShow ==
    /\ pc = "h_manual"
    /\ IF "url" \notin DOMAIN Target
       THEN Crash("KeyError", <<Msg("INFO", "manual_action", idx)>>)
       ELSE /\ out' = out \o <<Msg("INFO", "manual_action", idx), Asked("continue")>>
            /\ pc' = "man_prompt"
            /\ UNCHANGED exitCode
    /\ UNCHANGED <<cfgFile, driver, idx>>
    /\ LoopUnchanged

\* Enter at the prompt of _handle_manual_eid
ManualAck ==
    /\ pc = "man_prompt"
    /\ NextTarget(<< >>)
    /\ UNCHANGED <<cfgFile, driver>>
    /\ LoopUnchanged

\* the first lines of a browser handler: return when there is no driver
\* service, else the prompt before the browser opens
BrowserStart(from, to) ==
    /\ pc = from
    /\ IF ~chrome_service
       THEN NextTarget(<< >>)
       ELSE /\ out' = out \o <<Msg("INFO", "starting", idx), Asked("open_browser")>>
            /\ pc' = to
            /\ UNCHANGED <<idx, exitCode>>
    /\ UNCHANGED <<cfgFile, driver>>
    /\ LoopUnchanged

\* a handler that leaves its try block without driver.quit()
LeaveOpen(said) == NextTarget(said) /\ UNCHANGED driver

\* the end of a browser handler's try block: finally quits the driver
QuitAndNext(said) == NextTarget(said) /\ driver' = FALSE

\* webdriver.Chrome(service=...): the session opens, or the constructor raises
\* WebDriverException, which the handler reports as `msg`
BrowserOpen(from, to, ok, msg) ==
    /\ pc = from
    /\ IF ok
       THEN /\ driver' = TRUE
            /\ pc' = to
            /\ UNCHANGED <<idx, out, exitCode>>
       ELSE NextTarget(<<Msg("FAIL", msg, idx)>>) /\ UNCHANGED driver
    /\ UNCHANGED cfgFile
    /\ LoopUnchanged

WebformStart == BrowserStart("h_webform", "wf_open")

WebformOpen == \E ok \in BOOLEAN : BrowserOpen("wf_open", "wf_browser", ok, "browser_error")

\* lines 249-250
AvailableData ==
    LET country_code == Upper(Get(Target, "country", S_empty))
    IN  FormatDict(user_info, country_code)

\* lines 243-256 of _handle_webform, up to "Press Enter once submitted": the
\* page, the cookie button (a timeout there is ignored), the fields.  browser is
\* what the browser does: "ok", "timeout" (a field is not found in time) or
\* "error" (a WebDriverException)
WebformFill(browser) ==
    /\ pc = "wf_browser"
    /\ IF "url" \notin DOMAIN Target
       THEN QuitAndNext(<<Msg("FAIL", "unexpected_error", idx)>>)
       ELSE IF browser = "error"
       THEN QuitAndNext(<<Msg("FAIL", "browser_error", idx)>>)
       ELSE IF "field_map" \notin DOMAIN Target
       THEN QuitAndNext(<<Msg("FAIL", "unexpected_error", idx)>>)
       ELSE
        LET fillable == {k \in DOMAIN Target.field_map :
                            k \in DOMAIN AvailableData /\ AvailableData[k] # None}
        IN  /\ browser = "timeout" => fillable # {}
            /\ out' = out \o (IF browser = "timeout"
                              THEN <<Msg("FAIL", "field_timeout", idx)>> ELSE << >>)
                          \o <<Msg("INFO", "details_filled", idx), Asked("submitted")>>
            /\ pc' = "wf_submit"
            /\ UNCHANGED <<driver, idx, exitCode>>
    /\ UNCHANGED cfgFile
    /\ LoopUnchanged

\* Enter at "Press Enter once submitted", then finally
WebformSubmit ==
    /\ pc = "wf_submit"
    /\ QuitAndNext(<<Msg("INFO", "handled", idx)>>)
    /\ UNCHANGED cfgFile
    /\ LoopUnchanged

MrkollStart == BrowserStart("h_mrkoll", "mk_open")

MrkollOpen == \E ok \in BOOLEAN : BrowserOpen("mk_open", "mk_browser", ok, "unexpected_error")

\* lines 275-296 of _handle_mrkoll up to a prompt: the login button, the wait
\* for BankID, the hide button
MrkollFlow(browser) ==
    /\ pc = "mk_browser"
    /\ IF "url" \notin DOMAIN Target \/ browser = "error"
       THEN QuitAndNext(<<Msg("FAIL", "unexpected_error", idx)>>)
       ELSE /\ out' = out \o <<IF browser = "timeout" THEN Msg("FAIL", "timed_out", idx)
                               ELSE Msg("INFO", "flow_completed", idx),
                               Asked("continue")>>
            /\ pc' = "mk_prompt"
            /\ UNCHANGED <<driver, idx, exitCode>>
    /\ UNCHANGED cfgFile
    /\ LoopUnchanged

\* Enter at "Press Enter to continue", then finally
MrkollAck ==
    /\ pc = "mk_prompt"
    /\ QuitAndNext(<< >>)
    /\ UNCHANGED cfgFile
    /\ LoopUnchanged

RatsitStart == BrowserStart("h_ratsit", "rs_open")

RatsitOpen == \E ok \in BOOLEAN : BrowserOpen("rs_open", "rs_browser", ok, "unexpected_error")

\* lines 309-318 of _handle_ratsit up to its prompt; a timeout is an exception
\* like any other here
RatsitFlow(browser) ==
    /\ pc = "rs_browser"
    /\ IF "url" \notin DOMAIN Target \/ browser # "ok"
       THEN QuitAndNext(<<Msg("FAIL", "unexpected_error", idx)>>)
       ELSE /\ out' = out \o <<Msg("INFO", "bankid_active", idx), Asked("finished")>>
            /\ pc' = "rs_prompt"
            /\ UNCHANGED <<driver, idx, exitCode>>
    /\ UNCHANGED cfgFile
    /\ LoopUnchanged

\* Enter at "Press Enter here once you are finished", then finally
RatsitAck ==
    /\ pc = "rs_prompt"
    /\ QuitAndNext(<<Msg("INFO", "handled", idx)>>)
    /\ UNCHANGED cfgFile
    /\ LoopUnchanged

\* lines 355-358: the offer to save the settings, and the end of the run
SaveOffer(save) ==
    /\ pc = "save_prompt"
    /\ cfgFile' = IF save THEN _save_config(config) ELSE cfgFile
    /\ Exit(0, <<Asked("save_settings")>>
               \o (IF save THEN <<Msg("WARNING", "password_obfuscated", idx),
                                  Msg("INFO", "settings_saved", idx)>>
                   ELSE << >>)
               \o <<Msg("INFO", "process_complete", idx)>>)
    /\ UNCHANGED <<driver, idx>>
    /\ LoopUnchanged

\* a try block that an interrupt escapes while a browser session is open
InTryNotBrowser == pc # "exited" /\ ~(pc = "start" /\ args.clear_config) /\ ~driver

\* the positions of the run that are inside the try block of lines 376-378
InTry == pc # "exited" /\ ~(pc = "start" /\ args.clear_config)

\* an interrupt that is not caught: a traceback, and the process ends on SIGINT
InterruptUncaught ==
    /\ Exit(130, <<[ev |-> "traceback", exc |-> "KeyboardInterrupt", i |-> idx]>>)
    /\ driver' = FALSE

\* lines 379-380: KeyboardInterrupt inside the try block; no handler catches
\* it (they catch Exception), a finally on the way quits the driver
InterruptCaught ==
    /\ Exit(0, <<Msg("FAIL", "aborted_by_user", idx)>>)
    /\ driver' = FALSE

\* Ctrl-C while the program runs
Interrupt ==
    /\ pc # "exited"
    /\ IF InTry THEN InterruptCaught ELSE InterruptUncaught
    /\ UNCHANGED cfgFile
    /\ UNCHANGED idx
    /\ LoopUnchanged

Next ==
    \/ ClearConfig
    \/ Construct
    \/ SetupNoSelection
    \/ \E sel \in SUBSET AvailableCountries, p \in BOOLEAN : SelectCountries(sel, p)
    \/ SetupUserName
    \/ SetupUserField
    \/ \E u \in BOOLEAN, p \in {S_empty, S_465, S_x} : SetupSmtp(u, p)
    \/ \E ok \in BOOLEAN : SetupDriver(ok)
    \/ \E go \in BOOLEAN : SetupReady(go)
    \/ Dispatch
    \/ \E o \in {"ok", "auth", "error"} : HandleEmail(o)
    \/ ManualShow
    \/ ManualAck
    \/ WebformStart
    \/ WebformOpen
    \/ \E o \in {"ok", "timeout", "error"} : WebformFill(o)
    \/ WebformSubmit
    \/ MrkollStart
    \/ MrkollOpen
    \/ \E o \in {"ok", "timeout", "error"} : MrkollFlow(o)
    \/ MrkollAck
    \/ RatsitStart
    \/ RatsitOpen
    \/ \E o \in {"ok", "timeout", "error"} : RatsitFlow(o)
    \/ RatsitAck
    \/ \E save \in BOOLEAN : SaveOffer(save)
    \/ Interrupt

Spec == Init /\ [][Next]_vars

----------------------------------------------------------------------------
(* What a run printed *)

IsMsg(e, kind, msg) == e.ev = "print" /\ e.k = kind /\ e.msg = msg

\* the positions in out of the events of kind ev about target i
EventsOf(ev, i) == {k \in 1..Len(out) : out[k].ev = ev /\ out[k].i = i}

\* target i has been dispatched: its header was printed
Dispatched(i) == \E k \in 1..Len(out) : IsMsg(out[k], "INFO", "processing") /\ out[k].i = i

\* a failure or warning message was printed while target i was handled
Diagnosed(i) ==
    \E k \in 1..Len(out) :
        out[k].ev = "print" /\ out[k].k \in {"FAIL", "WARNING"} /\ out[k].i = i

\* the run was interrupted inside the try block
Aborted == \E k \in 1..Len(out) : IsMsg(out[k], "FAIL", "aborted_by_user")

\* an exception other than the interrupt left the program
Crashed ==
    \E k \in 1..Len(out) : out[k].ev = "traceback" /\ out[k].exc # "KeyboardInterrupt"

\* the save-settings offer was made
SaveOffered ==
    pc = "save_prompt"
    \/ \E k \in 1..Len(out) : out[k].ev = "input" /\ out[k].prompt = "save_settings"

\* target i is a record with the keys the dispatcher reads
HasNameAndType(i) == {"name", "type"} \subseteq DOMAIN targets[i]

----------------------------------------------------------------------------
(* The claims about a run *)

\* C1: no failure inside the handling of a target aborts the run: whatever the
\* target record lacks and whatever the template, the mail server and the
\* browser do, no exception leaves _process_targets.
C1_NoTargetAbortsRun ==
    \A k \in 1..Len(out) :
        (out[k].ev = "traceback" /\ out[k].exc # "KeyboardInterrupt") => out[k].i = 0

\* C2: a dispatched target (a record with a name and a type) whose type has no
\* handler gets the warning, once, and no handler; the loop moves on to the next
\* target without an exception, and a run that comes to the save offer has
\* dispatched every target.
C2_UnknownTypeSkipped ==
    /\ \A i \in 1..Len(targets) :
        (HasNameAndType(i) /\ targets[i].type \notin Handlers /\ Dispatched(i)) =>
            /\ Cardinality({k \in EventsOf("print", i) :
                               IsMsg(out[k], "WARNING", "unknown_type")}) = 1
            /\ EventsOf("handler", i) = {}
            /\ EventsOf("traceback", i) = {}
            /\ idx > i
            /\ (idx <= Len(targets) /\ pc = "exited") => (Aborted \/ Crashed)
    /\ SaveOffered => \A i \in 1..Len(targets) : Dispatched(i)

\* a fax target was skipped and the manual target after it got its prompt
C2_Witness ==
    /\ Len(targets) = 2
    /\ HasNameAndType(1) /\ targets[1].type = T_fax
    /\ \E k \in EventsOf("print", 1) : IsMsg(out[k], "WARNING", "unknown_type")
    /\ \E k \in EventsOf("input", 2) : out[k].prompt = "continue"
    /\ pc = "save_prompt"

\* C7: targets are handled one at a time in list order and each handler is
\* called at most once (what is logged about a target never precedes what is
\* logged about an earlier one); when the save offer is made, every target of a
\* known type has had exactly one handler call, of its own type, every manual
\* target one prompt, and every email target whose template renders and whose
\* mail server raised nothing one email, sent to its contact.
C7_OneAtATimeInOrder ==
    /\ \A k \in 1..(Len(out) - 1) : out[k].i <= out[k + 1].i
    /\ \A i \in 1..Len(targets) :
        LET calls == EventsOf("handler", i)
            mails == EventsOf("email_sent", i)
        IN  /\ Cardinality(calls) <= 1
            /\ Cardinality(mails) <= 1
            /\ \A k \in calls : HasNameAndType(i) /\ out[k].type = targets[i].type
            /\ mails # {} => calls # {}
    /\ SaveOffered =>
        \A i \in 1..Len(targets) :
            /\ Dispatched(i)
            /\ targets[i].type \in Handlers => Cardinality(EventsOf("handler", i)) = 1
            /\ targets[i].type \notin Handlers => EventsOf("handler", i) = {}
            /\ targets[i].type = T_manual_eid =>
                  Cardinality({k \in EventsOf("input", i) : out[k].prompt = "continue"}) = 1
            /\ (targets[i].type = T_email /\ "template" \in DOMAIN targets[i]
                /\ tmplFile = Tmpl_Example /\ ~Diagnosed(i)) =>
                  \E k \in EventsOf("email_sent", i) : out[k].to = targets[i].contact
            /\ targets[i].type # T_email => EventsOf("email_sent", i) = {}

\* an email target and a manual target: one email, one prompt, then the offer
C7_Witness ==
    /\ pc = "save_prompt"
    /\ Len(targets) = 2
    /\ targets[1].type = T_email /\ targets[2].type = T_manual_eid
    /\ Cardinality({k \in 1..Len(out) : out[k].ev = "email_sent"}) = 1
    /\ Cardinality({k \in 1..Len(out) :
                       out[k].ev = "input" /\ out[k].prompt = "continue"}) = 1
    /\ out[Len(out)].ev = "input" /\ out[Len(out)].prompt = "continue"

\* a file _load_json cannot read
Unreadable(f) == f.st \in {"missing", "invalid_json"}

\* the run got past the start and was not interrupted there
Started == ~args.clear_config /\ pc # "start" /\ ~(idx = 0 /\ targets = << >> /\ Aborted)

\* a normal run exits 0 on completion or clean abort, and --clear-config
\* deletes config.json and exits 0
C8_ExitCodes ==
    /\ pc = "exited" =>
        /\ exitCode # None
        /\ (~Crashed /\ ~args.clear_config
            /\ ~\E k \in 1..Len(out) : IsMsg(out[k], "FAIL", "not_found")
                                       \/ IsMsg(out[k], "FAIL", "invalid_json"))
           => exitCode = Some(0)
    /\ (args.clear_config /\ pc = "exited"
        /\ ~\E k \in 1..Len(out) : out[k].ev = "traceback")
       => cfgFile = NoFile /\ exitCode = Some(0)

\* C8 as stated: a missing or malformed config.json, targets.json or
\* countries.json ends the run with a message and a nonzero code before any
\* target is processed.
C8_AllFilesFatal ==
    /\ (Started /\ pc # "exited") =>
        cfgFile.st = "json" /\ ~Unreadable(targetsFile) /\ ~Unreadable(countriesFile)
    /\ C8_ExitCodes

\* C8, amended: a missing or invalid targets.json or countries.json ends the
\* run with code 1, with nothing asked and no target processed, and with the
\* message when config.json was read without an exception; a config.json that
\* is missing or is not JSON is not fatal: the run starts from an empty profile,
\* after a warning when the file is not JSON; a normal run exits 0 on completion
\* or clean abort, and --clear-config deletes config.json and exits 0.
C8_FatalInputs ==
    /\ (Started /\ (Unreadable(targetsFile) \/ Unreadable(countriesFile))) =>
        /\ pc = "exited" /\ exitCode = Some(1)
        /\ targets = << >> /\ idx = 0
        /\ \A k \in 1..Len(out) : out[k].ev \in {"print", "traceback"}
        /\ cfgFile.st # "json_array" =>
              LET last == out[Len(out)]
                  bad == IF Unreadable(targetsFile) THEN targetsFile ELSE countriesFile
              IN  IsMsg(last, "FAIL", IF bad.st = "missing" THEN "not_found"
                                      ELSE "invalid_json")
    /\ (Started /\ Unreadable(cfgFile)) =>
        /\ pc = "setup" => config = DefaultUserConfig
        /\ cfgFile.st = "invalid_json" <=>
              (out # << >> /\ IsMsg(out[1], "WARNING", "config_unreadable"))
        /\ (~Unreadable(targetsFile) /\ ~Unreadable(countriesFile)) =>
              /\ \A k \in 1..Len(out) : ~IsMsg(out[k], "FAIL", "not_found")
                                          /\ ~IsMsg(out[k], "FAIL", "invalid_json")
              /\ ~Crashed => exitCode # Some(1)
    /\ C8_ExitCodes

\* targets.json is missing and config.json is not JSON: the warning, then the
\* message, and exit code 1
C8_Witness ==
    /\ pc = "exited" /\ exitCode = Some(1)
    /\ cfgFile.st = "invalid_json" /\ targetsFile.st = "missing"
    /\ Len(out) = 2 /\ IsMsg(out[2], "FAIL", "not_found")

\* what was done for target i when its handler did what it is for
CarriedOut(i) ==
    \/ EventsOf("email_sent", i) # {}
    \/ \E k \in EventsOf("print", i) :
          out[k].k = "INFO" /\ out[k].msg \in {"handled", "flow_completed"}
    \/ \E k \in EventsOf("input", i) : out[k].prompt = "continue"

\* C9: for every target that was dispatched and left behind without its action
\* carried out, a failure or warning message was printed while it was handled.
C9_NoSilentFailure ==
    \A i \in 1..Len(targets) :
        (Dispatched(i) /\ idx > i /\ ~CarriedOut(i)) => Diagnosed(i)

\* C10: an interrupt during a run (anywhere but in the --clear-config branch,
\* which is outside the try block) ends it with the abort message as the last
\* thing printed, exit code 0, no traceback and no browser session left open.
C10_InterruptAborts ==
    /\ \A k \in 1..Len(out) :
        (out[k].ev = "traceback" /\ out[k].exc = "KeyboardInterrupt") => args.clear_config
    /\ Aborted =>
        /\ pc = "exited" /\ exitCode = Some(0)
        /\ IsMsg(out[Len(out)], "FAIL", "aborted_by_user")
        /\ Cardinality({k \in 1..Len(out) : IsMsg(out[k], "FAIL", "aborted_by_user")}) = 1
        /\ ~driver

\* interrupted at "Press Enter once submitted", with the browser of a web form open
C10_Witness ==
    /\ Aborted
    /\ Len(out) >= 2
    /\ out[Len(out) - 1].ev = "input" /\ out[Len(out) - 1].prompt = "submitted"
    /\ exitCode = Some(0)

\* the positions of a handler at which the session it opened is open
SessionPcs(type) ==
    IF type = T_webform THEN {"wf_browser", "wf_submit"}
    ELSE IF type = T_mrkoll_flow THEN {"mk_browser", "mk_prompt"}
    ELSE IF type = T_ratsit_flow THEN {"rs_browser", "rs_prompt"}
    ELSE {}

\* C11: a browser session is open only inside the browser handler of the
\* target being handled, between its webdriver.Chrome call and its finally
\* clause: none is open where a handler opens one (so at most one is open at
\* any time), none when the dispatcher takes the next target or makes the save
\* offer, and none when the run has ended, whether the handler finished
\* normally, by timeout, by exception or by interruption.
C11_SessionPerTarget ==
    /\ driver =>
        /\ idx \in 1..Len(targets)
        /\ HasNameAndType(idx)
        /\ pc \in SessionPcs(targets[idx].type)
    /\ pc \in {"wf_open", "mk_open", "rs_open"} => ~driver
    /\ pc \in {"dispatch", "save_prompt", "exited"} => ~driver

\* the session of a web form was quit after "Marked as handled" and the
\* mrkoll flow of the next target has opened its own
C11_Witness ==
    /\ pc = "mk_browser" /\ driver
    /\ Len(targets) = 2 /\ idx = 2
    /\ HasNameAndType(1) /\ HasNameAndType(2)
    /\ targets[1].type = T_webform /\ targets[2].type = T_mrkoll_flow
    /\ \E k \in EventsOf("print", 1) : IsMsg(out[k], "INFO", "handled")

\* C12: a run that starts from a profile an earlier run saved holds the saved
\* SMTP settings as it holds settings typed in, an SmtpConfig whose email,
\* password, server and port can be read, and no AttributeError leaves _setup,
\* _get_smtp_config or _send_email_with_config.
C12_SavedProfileUsable ==
    (cfgFile = SavedProfile /\ ~args.clear_config /\ pc # "start") =>
        /\ config.smtp.kind = "SmtpConfig"
        /\ \A k \in 1..Len(out) :
              out[k].ev = "traceback" => out[k].exc # "AttributeError"

====
